---- MODULE Spec2Model ----
(***************************************************************************)
(* A model of the Jackett search plugin (src/jackett.py): the search       *)
(* entry point, the indexer-list resolver, the per-indexer query workers   *)
(* run by the thread pool, the item normaliser and the printer lock.       *)
(*                                                                         *)
(* Texts are sequences of tokens; Python's None is the text NoneV.  A      *)
(* print is not atomic (body, then newline): a thread that has begun a     *)
(* write stays "in the write" until a later step ends it.  Record fields   *)
(* that no property reads (size, desc_link, pub_date) are left out.        *)
(***************************************************************************)
EXTENDS Integers, Sequences, FiniteSets, TLC

(* ------------------------------ bounds ------------------------------- *)

\* most indexers an indexer-list document names
MaxIndexers == 2
\* most <item> elements over all feeds fetched in one search
MaxItems == 2
\* largest configured thread_count
MaxThreads == 2
\* most <item> elements of the feed of a sequential search (SpecSeq)
MaxFeed == 1

(* --------------------------- texts and values ------------------------ *)

NoneV == <<"<None>">>

PLACEHOLDER_KEY == "YOUR_API_KEY_HERE"

\* Python truthiness of an Optional[str]: None and "" are falsy
Falsy(t) == t = NoneV \/ t = <<>>

RECURSIVE RStrip(_)
\* str.rstrip("/")
RStrip(s) ==
    IF s = <<>> THEN s
    ELSE IF s[Len(s)] = "/" THEN RStrip(SubSeq(s, 1, Len(s) - 1))
    ELSE s

\* values of the "url" key of the configuration file ("h" stands for a
\* scheme and host)
UrlConfigs == { <<>>, <<"/">>, <<"h">>, <<"h", "/">> }

RECURSIVE EscapePipe(_)
\* name.replace("|", "%7C")
EscapePipe(s) ==
    IF s = <<>> THEN <<>>
    ELSE <<(IF Head(s) = "|" THEN "%7C" ELSE Head(s))>> \o EscapePipe(Tail(s))

\* a torznab attr element: absent, present with a value int() rejects (or
\* with no value at all), present with an integer value
AttrAbsent == [k |-> "absent", v |-> 0]
AttrBad    == [k |-> "bad", v |-> 0]
AttrInt(n) == [k |-> "int", v |-> n]

\* an <item>: title and link are findtext results, magnet is <<>> when the
\* magneturl attr is absent and <<value>> when it is present
Item(t, m, l, s, p) ==
    [title |-> t, tracker |-> <<"trk">>, magnet |-> m, link |-> l,
     seeders |-> s, peers |-> p]

MagnetUpper == <<"magnet:?xt=urn:btih:", "AB">>
MagnetLower == <<"magnet:?xt=urn:btih:", "ab">>
PlainLink   == <<"http://t/1.torrent">>

\* the items of the feeds the pool workers fetch: one that is dropped, one
\* that raises, two that normalise
ItemNoTitle  == Item(NoneV, <<MagnetUpper>>, PlainLink, AttrInt(5), AttrInt(7))
ItemBadSeeds == Item(<<"t">>, <<>>, PlainLink, AttrBad, AttrInt(7))
ItemA        == Item(<<"a", "|">>, <<MagnetUpper>>, PlainLink, AttrInt(5), AttrInt(7))
ItemB        == Item(<<"b">>, <<MagnetLower>>, <<>>, AttrInt(12), AttrAbsent)

ItemUniverse == {ItemNoTitle, ItemBadSeeds, ItemA, ItemB}

\* the items of the feed of a sequential search: every combination of an
\* absent, empty or present title, magneturl attr and link with absent,
\* rejected and integer seeders and peers
Titles  == {NoneV, <<>>, <<"a", "|">>}
Magnets == {<<>>, <<NoneV>>, << <<>> >>, <<MagnetUpper>>}
Links   == {NoneV, <<>>, PlainLink}
Seeders == {AttrAbsent, AttrBad, AttrInt(5)}
Peers   == {AttrAbsent, AttrInt(7)}

FullItems ==
    { Item(t, m, l, sd, pr) :
        t \in Titles, m \in Magnets, l \in Links, sd \in Seeders, pr \in Peers }

\* the items that differ in seeders and peers only: absent, negative, zero,
\* peers below seeders, peers above seeders
LeechValues == {AttrAbsent, AttrInt(-2), AttrInt(-1), AttrInt(0), AttrInt(3), AttrInt(7)}

LeechItems ==
    { Item(<<"a">>, <<>>, PlainLink, sd, pr) : sd \in LeechValues, pr \in LeechValues }

RECURSIVE SeqsUpTo(_, _)
SeqsUpTo(S, n) ==
    IF n = 0 THEN { <<>> }
    ELSE LET shorter == SeqsUpTo(S, n - 1)
         IN  shorter \cup { Append(q, x) : q \in shorter, x \in S }

(* ------------------------- network responses ------------------------- *)

\* what _fetch_url returns: None, "", text that is no XML, or a document
RespNone   == [k |-> "none", ids |-> <<>>, items |-> <<>>]
RespEmpty  == [k |-> "empty", ids |-> <<>>, items |-> <<>>]
RespNotXml == [k |-> "notxml", ids |-> <<>>, items |-> <<>>]
\* an indexer-list document holding an <indexer> with no id attribute
RespNoId   == [k |-> "noid", ids |-> <<>>, items |-> <<>>]
\* a document whose root has no <channel>
RespNoChannel == [k |-> "nochannel", ids |-> <<>>, items |-> <<>>]
RespIndexers(ids) == [k |-> "indexers", ids |-> ids, items |-> <<>>]
RespFeed(items)   == [k |-> "feed", ids |-> <<>>, items |-> items]

\* "not xml_data"
NoData(r) == r.k \in {"none", "empty"}

\* most indexers of a list that has more indexers than there are threads
\* (SpecPool)
PoolIndexers == MaxIndexers + 1

\* the id attributes of the configured indexers, in document order
IndexerIds == [i \in 1..PoolIndexers |-> <<"indexer", i>>]
\* the literal "all" of the sequential branch
ALL == <<"all", 0>>

\* An empty base URL gives a URL without a scheme: build_opener().open raises
\* ValueError, which _fetch_url turns into None.
ListResponses(u) ==
    IF u = <<>> THEN {RespNone}
    ELSE {RespNone, RespEmpty, RespNotXml, RespNoId}
         \cup { RespIndexers(SubSeq(IndexerIds, 1, n)) : n \in 0..MaxIndexers }

\* the lists of one to PoolIndexers indexers, and the failed fetch
PoolListResponses(u) ==
    IF u = <<>> THEN {RespNone}
    ELSE {RespNone} \cup { RespIndexers(SubSeq(IndexerIds, 1, n)) : n \in 1..PoolIndexers }

\* the feeds of at most room items made of the items in U
FeedResponses(u, U, room) ==
    IF u = <<>> THEN {RespNone}
    ELSE {RespNone, RespNotXml, RespNoChannel}
         \cup { RespFeed(f) : f \in SeqsUpTo(U, room) }

(* --------------------------- item normaliser ------------------------- *)

Dropped == [out |-> "drop", name |-> <<>>, link |-> <<>>, seeds |-> -1, leech |-> -1]
Raised  == [out |-> "raise", name |-> <<>>, link |-> <<>>, seeds |-> -1, leech |-> -1]

ComposeName(title, tracker, tf) ==
    IF tf THEN <<"[">> \o tracker \o <<"]", " ">> \o title
    ELSE title \o <<" ", "[">> \o tracker \o <<"]">>

SelectLink(item) ==
    IF item.magnet # <<>> THEN item.magnet[1] ELSE item.link

AttrValue(a) == IF a.k = "absent" THEN -1 ELSE a.v

Leech(seeds, peers) ==
    IF seeds # -1 /\ peers # -1 THEN peers - seeds ELSE -1

\* _parse_and_print_item without the test of line 234
NormalizeLinkUnchecked(item, tf) ==
    LET link  == SelectLink(item)
        seeds == AttrValue(item.seeders)
        peers == AttrValue(item.peers)
    IN  IF Falsy(item.title) THEN Dropped
        ELSE IF item.seeders.k = "bad" \/ item.peers.k = "bad" THEN Raised
        ELSE [out   |-> "record",
              name  |-> EscapePipe(ComposeName(item.title, item.tracker, tf)),
              link  |-> link,
              seeds |-> seeds,
              leech |-> Leech(seeds, peers)]

\* the body of _parse_and_print_item up to the call of _safe_print: the
\* record to print, a silent return, or an exception caught at line 265
Normalize(item, tf) ==
    LET link  == SelectLink(item)
        seeds == AttrValue(item.seeders)
        peers == AttrValue(item.peers)
    IN  IF Falsy(item.title) THEN Dropped
        ELSE IF Falsy(link) THEN Dropped
        ELSE IF item.seeders.k = "bad" \/ item.peers.k = "bad" THEN Raised
        ELSE [out   |-> "record",
              name  |-> EscapePipe(ComposeName(item.title, item.tracker, tf)),
              link  |-> link,
              seeds |-> seeds,
              leech |-> Leech(seeds, peers)]

\* what prettyPrinter receives, tagged with the thread that printed it
\* (0 is the calling thread, i > 0 the i-th dispatched query)
ResultEntry(i, n) ==
    [kind |-> "result", by |-> i, name |-> n.name, link |-> n.link,
     seeds |-> n.seeds, leech |-> n.leech]

ErrorEntry(msg, u) ==
    [kind |-> "error", by |-> 0, name |-> <<"Jackett: ", msg>>, link |-> u,
     seeds |-> -1, leech |-> -1]

(* ------------------------------- state -------------------------------- *)

VARIABLES
    is_malformed,   \* self.is_malformed
    api_key,        \* self.api_key
    url,            \* jackett.url, already stripped
    tracker_first,  \* self.tracker_first
    thread_count,   \* self.thread_count
    mpc,            \* where the thread that called search is
    list_xml,       \* what _get_configured_indexers fetched
    indexers,       \* the ids _get_configured_indexers returned
    tasks,          \* the indexer_id argument of every _search_indexer call
    pool_size,      \* threads of the Pool (1 in the sequential branch)
    wpc,            \* where each _search_indexer call is
    xml_data,       \* what each call fetched
    idx,            \* position of each call in channel.findall("item")
    lock,           \* holder of PRINTER_LOCK: -1 nobody, 0 caller, i a call
    sink,           \* the records handed to prettyPrinter, in order
    fetches,        \* how often each URL was fetched
    proxy,          \* whether proxy_manager has the proxy enabled
    dpc,            \* where the thread that called download_torrent is
    download_url,   \* the argument of download_torrent
    response_content, \* what download_torrent fetched
    dl_fetches,     \* the fetches of download_torrent, each with the proxy state it ran under
    dl_out          \* the lines download_torrent has printed, in order

vars == <<is_malformed, api_key, url, tracker_first, thread_count, mpc,
          list_xml, indexers, tasks, pool_size, wpc, xml_data, idx, lock, sink, fetches,
          proxy, dpc, download_url, response_content, dl_fetches, dl_out>>

\* what a search leaves alone
download == <<proxy, dpc, download_url, response_content, dl_fetches, dl_out>>

config == <<is_malformed, api_key, url, tracker_first, thread_count>>

LIST == <<"indexers", 0>>
Targets == {LIST, ALL} \cup {IndexerIds[i] : i \in DOMAIN IndexerIds}

Init ==
    /\ is_malformed \in BOOLEAN
    /\ api_key \in {PLACEHOLDER_KEY, "key"}
    /\ \E u \in UrlConfigs : url = RStrip(u)
    /\ tracker_first \in BOOLEAN
    /\ thread_count \in 1..MaxThreads
    /\ mpc = "idle"
    /\ list_xml = RespNone
    /\ indexers = <<>>
    /\ tasks = <<>>
    /\ pool_size = 0
    /\ wpc = <<>>
    /\ xml_data = <<>>
    /\ idx = <<>>
    /\ lock = -1
    /\ sink = <<>>
    /\ fetches = [t \in Targets |-> 0]
    /\ proxy = FALSE
    /\ dpc = "idle"
    /\ download_url = NoneV
    /\ response_content = NoneV
    /\ dl_fetches = <<>>
    /\ dl_out = <<>>

(* ------------------------- the calling thread ------------------------- *)

Count(t) == [fetches EXCEPT ![t] = @ + 1]

\* _handle_error up to the write inside _safe_print: the lock is taken and
\* prettyPrinter has begun
BeginError(msg) ==
    /\ lock = -1
    /\ lock' = 0
    /\ sink' = Append(sink, ErrorEntry(msg, url))
    /\ mpc' = "error_print"

\* search without the test of line 161
SearchKeyUnchecked ==
    /\ mpc = "idle"
    /\ IF is_malformed
       THEN BeginError("malformed configuration file")
       ELSE mpc' = "resolving" /\ UNCHANGED <<lock, sink>>
    /\ UNCHANGED <<config, download, list_xml, indexers, tasks, pool_size, wpc, xml_data, idx, fetches>>

\* search, lines 154-163: the two pre-flight checks
Search ==
    /\ mpc = "idle"
    /\ IF is_malformed
       THEN BeginError("malformed configuration file")
       ELSE IF api_key = PLACEHOLDER_KEY
       THEN BeginError("API key is not configured")
       ELSE mpc' = "resolving" /\ UNCHANGED <<lock, sink>>
    /\ UNCHANGED <<config, download, list_xml, indexers, tasks, pool_size, wpc, xml_data, idx, fetches>>

\* a pool with one thread for every task, whatever thread_count says
DispatchThreadPerTask(ids) ==
    LET parallel == thread_count > 1 /\ Len(ids) > 1
        args     == IF parallel THEN ids ELSE <<ALL>>
    IN  /\ tasks' = args
        /\ pool_size' = Len(args)
        /\ wpc' = [i \in 1..Len(args) |-> "queued"]
        /\ xml_data' = [i \in 1..Len(args) |-> RespNone]
        /\ idx' = [i \in 1..Len(args) |-> 0]
        /\ mpc' = "querying"

\* a search that queries "all" once, whatever was resolved
DispatchAllOnly(ids) ==
    /\ tasks' = <<ALL>>
    /\ pool_size' = 1
    /\ wpc' = [i \in 1..1 |-> "queued"]
    /\ xml_data' = [i \in 1..1 |-> RespNone]
    /\ idx' = [i \in 1..1 |-> 0]
    /\ mpc' = "querying"

\* a sequential branch that queries the first resolved id instead of "all"
DispatchFirstId(ids) ==
    LET parallel == thread_count > 1 /\ Len(ids) > 1
        args     == IF parallel THEN ids ELSE <<ids[1]>>
    IN  /\ tasks' = args
        /\ pool_size' = IF parallel
                        THEN (IF Len(ids) < thread_count THEN Len(ids) ELSE thread_count)
                        ELSE 1
        /\ wpc' = [i \in 1..Len(args) |-> "queued"]
        /\ xml_data' = [i \in 1..Len(args) |-> RespNone]
        /\ idx' = [i \in 1..Len(args) |-> 0]
        /\ mpc' = "querying"

\* search, lines 170-179: the pool branch queries every id, the sequential
\* branch queries "all" once
Dispatch(ids) ==
    LET parallel == thread_count > 1 /\ Len(ids) > 1
        args     == IF parallel THEN ids ELSE <<ALL>>
    IN  /\ tasks' = args
        /\ pool_size' = IF parallel
                        THEN (IF Len(ids) < thread_count THEN Len(ids) ELSE thread_count)
                        ELSE 1
        /\ wpc' = [i \in 1..Len(args) |-> "queued"]
        /\ xml_data' = [i \in 1..Len(args) |-> RespNone]
        /\ idx' = [i \in 1..Len(args) |-> 0]
        /\ mpc' = "querying"

\* a parse error reported by nobody: the list is taken to be empty
ResolveSilentParseError(r) ==
    IF NoData(r)
    THEN /\ BeginError("could not connect to Jackett to get indexer list")
         /\ UNCHANGED <<indexers, tasks, pool_size, wpc, xml_data, idx>>
    ELSE IF r.k \in {"notxml", "noid"}
    THEN /\ mpc' = IF r.k = "noid" THEN "raised" ELSE "returned"
         /\ UNCHANGED <<indexers, tasks, pool_size, wpc, xml_data, idx, lock, sink>>
    ELSE /\ indexers' = r.ids
         /\ IF r.ids = <<>>
            THEN /\ mpc' = "returned"
                 /\ UNCHANGED <<tasks, pool_size, wpc, xml_data, idx>>
            ELSE Dispatch(r.ids)
         /\ UNCHANGED <<lock, sink>>

\* an unreachable gateway reported by nobody: the list is taken to be empty
ResolveSilentNoData(r) ==
    IF NoData(r)
    THEN /\ mpc' = "returned"
         /\ UNCHANGED <<indexers, tasks, pool_size, wpc, xml_data, idx, lock, sink>>
    ELSE IF r.k = "notxml"
    THEN /\ BeginError("failed to parse Jackett indexer list (invalid XML)")
         /\ UNCHANGED <<indexers, tasks, pool_size, wpc, xml_data, idx>>
    ELSE IF r.k = "noid"
    THEN /\ mpc' = "raised"
         /\ UNCHANGED <<indexers, tasks, pool_size, wpc, xml_data, idx, lock, sink>>
    ELSE /\ indexers' = r.ids
         /\ IF r.ids = <<>>
            THEN /\ mpc' = "returned"
                 /\ UNCHANGED <<tasks, pool_size, wpc, xml_data, idx>>
            ELSE Dispatch(r.ids)
         /\ UNCHANGED <<lock, sink>>

\* _get_configured_indexers from line 187 on, and what search does with
\* the list it returns
Resolve(r) ==
    IF NoData(r)
    THEN /\ BeginError("could not connect to Jackett to get indexer list")
         /\ UNCHANGED <<indexers, tasks, pool_size, wpc, xml_data, idx>>
    ELSE IF r.k = "notxml"
    THEN /\ BeginError("failed to parse Jackett indexer list (invalid XML)")
         /\ UNCHANGED <<indexers, tasks, pool_size, wpc, xml_data, idx>>
    ELSE IF r.k = "noid"
    THEN \* KeyError: no handler in _get_configured_indexers or in search
         /\ mpc' = "raised"
         /\ UNCHANGED <<indexers, tasks, pool_size, wpc, xml_data, idx, lock, sink>>
    ELSE /\ indexers' = r.ids
         /\ IF r.ids = <<>>
            THEN /\ mpc' = "returned"
                 /\ UNCHANGED <<tasks, pool_size, wpc, xml_data, idx>>
            ELSE Dispatch(r.ids)
         /\ UNCHANGED <<lock, sink>>

\* _get_configured_indexers: the one fetch of the indexer list, answered
\* by one of the responses in L
GetIndexers(L) ==
    /\ mpc = "resolving"
    /\ \E r \in L :
        /\ fetches' = Count(LIST)
        /\ list_xml' = r
        /\ Resolve(r)
    /\ UNCHANGED <<config, download>>

GetConfiguredIndexers == GetIndexers(ListResponses(url))

\* _safe_print leaves prettyPrinter and the with block; search returns
EndError ==
    /\ mpc = "error_print"
    /\ lock' = -1
    /\ mpc' = "returned"
    /\ UNCHANGED <<config, download, list_xml, indexers, tasks, pool_size, wpc, xml_data, idx, sink, fetches>>

\* a map that returns once every call has been started
JoinNoWait ==
    /\ mpc = "querying"
    /\ \A i \in DOMAIN wpc : wpc[i] # "queued"
    /\ mpc' = "returned"
    /\ UNCHANGED <<config, download, list_xml, indexers, tasks, pool_size, wpc, xml_data, idx, lock, sink, fetches>>

\* a map that returns with the first call that has returned
JoinFirst ==
    /\ mpc = "querying"
    /\ \E i \in DOMAIN wpc : wpc[i] = "done"
    /\ mpc' = "returned"
    /\ UNCHANGED <<config, download, list_xml, indexers, tasks, pool_size, wpc, xml_data, idx, lock, sink, fetches>>

\* starmap (or the sequential call) has returned
Join ==
    /\ mpc = "querying"
    /\ \A i \in DOMAIN wpc : wpc[i] = "done"
    /\ mpc' = "returned"
    /\ UNCHANGED <<config, download, list_xml, indexers, tasks, pool_size, wpc, xml_data, idx, lock, sink, fetches>>

(* --------------------------- the query workers ------------------------ *)

InFlight == {i \in DOMAIN wpc : wpc[i] \notin {"queued", "done"}}

RECURSIVE ItemsFetched(_)
ItemsFetched(n) ==
    IF n = 0 THEN 0 ELSE Len(xml_data[n].items) + ItemsFetched(n - 1)

RECURSIVE NextItem(_, _, _)
\* the loop of line 215 from position n on: items that return at line 225 or
\* 235 print nothing and take no lock, so the loop runs on to the first item
\* that prints (or past the end)
NextItem(items, n, tf) ==
    IF n > Len(items) THEN n
    ELSE IF Normalize(items[n], tf).out = "drop" THEN NextItem(items, n + 1, tf)
    ELSE n

\* where a call stands once the loop has reached position n: at an item
\* that prints, or about to return (no channel at line 214, or the loop is
\* over)
Resume(r, n) == IF r.k = "feed" /\ n <= Len(r.items) THEN "fetched" ELSE "returning"

\* a free pool thread takes the next task: _search_indexer up to its first
\* write (or to the end of its loop when it writes nothing)
Fetch(i, U, m) ==
    /\ mpc = "querying"
    /\ wpc[i] = "queued"
    /\ \A j \in DOMAIN wpc : j < i => wpc[j] # "queued"
    /\ Cardinality(InFlight) < pool_size
    /\ \E r \in FeedResponses(url, U, m - ItemsFetched(Len(wpc))) :
        LET n == NextItem(r.items, 1, tracker_first)
        IN  /\ xml_data' = [xml_data EXCEPT ![i] = r]
            /\ idx' = [idx EXCEPT ![i] = n]
            /\ wpc' = [wpc EXCEPT ![i] =
                          IF NoData(r) \/ r.k = "notxml" THEN "fetched" ELSE Resume(r, n)]
    /\ fetches' = Count(tasks[i])
    /\ UNCHANGED <<config, download, mpc, list_xml, indexers, tasks, pool_size, lock, sink>>

\* the item the loop of line 215 is at, normalised
Current(i) == Normalize(xml_data[i].items[idx[i]], tracker_first)

AtItem(i) ==
    /\ wpc[i] = "fetched"
    /\ xml_data[i].k = "feed"
    /\ idx[i] <= Len(xml_data[i].items)

\* the loop moves past the item just handled
Continue(i) ==
    LET n == NextItem(xml_data[i].items, idx[i] + 1, tracker_first)
    IN  /\ idx' = [idx EXCEPT ![i] = n]
        /\ wpc' = [wpc EXCEPT ![i] = Resume(xml_data[i], n)]

\* a worker that reports a fetch that gave nothing with an error record
BeginDebugAsError(i) ==
    /\ wpc[i] = "fetched"
    /\ \/ NoData(xml_data[i])
       \/ xml_data[i].k = "notxml"
       \/ AtItem(i) /\ Current(i).out = "raise"
    /\ wpc' = [wpc EXCEPT ![i] = "debug_print"]
    /\ sink' = IF NoData(xml_data[i])
               THEN Append(sink, ErrorEntry("no response from indexer", url))
               ELSE sink
    /\ UNCHANGED <<config, download, mpc, list_xml, indexers, tasks, pool_size, xml_data, idx, lock, fetches>>

\* one of the print() calls of lines 208, 218 and 267 has begun to write a
\* DEBUG line to stdout: no lock is taken
BeginDebug(i) ==
    /\ wpc[i] = "fetched"
    /\ \/ NoData(xml_data[i])
       \/ xml_data[i].k = "notxml"
       \/ AtItem(i) /\ Current(i).out = "raise"
    /\ wpc' = [wpc EXCEPT ![i] = "debug_print"]
    /\ UNCHANGED <<config, download, mpc, list_xml, indexers, tasks, pool_size, xml_data, idx, lock, sink, fetches>>

\* a worker that fetches again after a fetch that gave nothing
EndDebugRetry(i) ==
    /\ wpc[i] = "debug_print"
    /\ IF xml_data[i].k = "feed"
       THEN Continue(i)
       ELSE /\ wpc' = [wpc EXCEPT ![i] = IF NoData(xml_data[i]) THEN "queued" ELSE "returning"]
            /\ idx' = idx
    /\ UNCHANGED <<config, download, mpc, list_xml, indexers, tasks, pool_size, xml_data, lock, sink, fetches>>

\* a worker that gives its feed up at the first item that raises
EndDebugAbortsFeed(i) ==
    /\ wpc[i] = "debug_print"
    /\ wpc' = [wpc EXCEPT ![i] = "returning"]
    /\ idx' = idx
    /\ UNCHANGED <<config, download, mpc, list_xml, indexers, tasks, pool_size, xml_data, lock, sink, fetches>>

\* print() of the DEBUG line is over: the call returns (lines 209, 218) or
\* the loop goes on (line 267)
EndDebug(i) ==
    /\ wpc[i] = "debug_print"
    /\ IF xml_data[i].k = "feed"
       THEN Continue(i)
       ELSE /\ wpc' = [wpc EXCEPT ![i] = "returning"]
            /\ idx' = idx
    /\ UNCHANGED <<config, download, mpc, list_xml, indexers, tasks, pool_size, xml_data, lock, sink, fetches>>

\* a printer that puts the newest record first
BeginPrintFirst(i) ==
    /\ AtItem(i)
    /\ Current(i).out = "record"
    /\ lock = -1
    /\ lock' = i
    /\ sink' = <<ResultEntry(i, Current(i))>> \o sink
    /\ wpc' = [wpc EXCEPT ![i] = "result_print"]
    /\ UNCHANGED <<config, download, mpc, list_xml, indexers, tasks, pool_size, xml_data, idx, fetches>>

\* _safe_print: PRINTER_LOCK taken, prettyPrinter begun
BeginPrint(i) ==
    /\ AtItem(i)
    /\ Current(i).out = "record"
    /\ lock = -1
    /\ lock' = i
    /\ sink' = Append(sink, ResultEntry(i, Current(i)))
    /\ wpc' = [wpc EXCEPT ![i] = "result_print"]
    /\ UNCHANGED <<config, download, mpc, list_xml, indexers, tasks, pool_size, xml_data, idx, fetches>>

\* prettyPrinter done, PRINTER_LOCK released, the loop goes on
EndPrint(i) ==
    /\ wpc[i] = "result_print"
    /\ lock' = -1
    /\ Continue(i)
    /\ UNCHANGED <<config, download, mpc, list_xml, indexers, tasks, pool_size, xml_data, sink, fetches>>

\* _search_indexer returns: the pool thread is free, the call is complete
Finish(i) ==
    /\ wpc[i] = "returning"
    /\ wpc' = [wpc EXCEPT ![i] = "done"]
    /\ UNCHANGED <<config, download, mpc, list_xml, indexers, tasks, pool_size, xml_data, idx, lock, sink, fetches>>

\* the steps of the calls that have begun
Running ==
    \/ \E i \in DOMAIN wpc : BeginDebug(i)
    \/ \E i \in DOMAIN wpc : EndDebug(i)
    \/ \E i \in DOMAIN wpc : BeginPrint(i)
    \/ \E i \in DOMAIN wpc : EndPrint(i)
    \/ \E i \in DOMAIN wpc : Finish(i)

Next ==
    \/ Search
    \/ GetConfiguredIndexers
    \/ EndError
    \/ Join
    \/ \E i \in DOMAIN wpc : Fetch(i, ItemUniverse, MaxItems)
    \/ Running

Spec == Init /\ [][Next]_vars

\* every fetch returns (timeout=20, line 273) and every thread that can take
\* a step is scheduled in the end
SpecFair == Init /\ [][Next]_vars /\ WF_vars(Next)

\* thread_count 1: one query of "all", run by the calling thread
InitSeq == Init /\ thread_count = 1

NextSeq ==
    \/ Search
    \/ GetConfiguredIndexers
    \/ EndError
    \/ Join
    \/ \E i \in DOMAIN wpc : Fetch(i, FullItems, MaxFeed)
    \/ Running

SpecSeq == InitSeq /\ [][NextSeq]_vars

\* a configured plugin and lists of up to PoolIndexers indexers, so that there
\* can be more tasks than threads; feeds of at most MaxFeed items
InitPool ==
    /\ Init
    /\ ~is_malformed
    /\ api_key # PLACEHOLDER_KEY
    /\ url # <<>>
    /\ ~tracker_first

NextPool ==
    \/ Search
    \/ GetIndexers(PoolListResponses(url))
    \/ EndError
    \/ Join
    \/ \E i \in DOMAIN wpc : Fetch(i, {ItemA}, MaxFeed)
    \/ Running

SpecPool == InitPool /\ [][NextPool]_vars

\* a sequential search whose feed holds items with integer seeders and peers
\* of either sign
NextLeech ==
    \/ Search
    \/ GetConfiguredIndexers
    \/ EndError
    \/ Join
    \/ \E i \in DOMAIN wpc : Fetch(i, LeechItems, MaxFeed)
    \/ Running

SpecLeech == InitSeq /\ [][NextLeech]_vars

(* --------------------------- download_torrent ------------------------- *)

\* str.startswith("magnet:"): the scheme is compared as written
StartsWithMagnet(t) == t # <<>> /\ t[1] = "magnet:?xt=urn:btih:"

MagnetShout == <<"MAGNET:?xt=urn:btih:", "AB">>
TorrentBody == <<"d8:announce">>

\* the URLs qBittorrent hands to download_torrent
DownloadUrls == {MagnetUpper, MagnetLower, MagnetShout, PlainLink, <<>>}

\* what _fetch_url returns to download_torrent: None on a failure, the body
\* read, or e.url of a 302 that urllib does not follow
DlNone        == [k |-> "none", text |-> NoneV]
DlBody(t)     == [k |-> "body", text |-> t]
DlRedirect(t) == [k |-> "redirect", text |-> t]

\* A URL without a scheme makes open raise ValueError: None.
DlResponses(u) ==
    IF u = <<>> THEN {DlNone}
    ELSE {DlNone, DlBody(<<>>), DlBody(TorrentBody), DlBody(MagnetLower),
          DlRedirect(MagnetUpper), DlRedirect(PlainLink)}

\* print(f"{magnet} {torrent_url}")
LinkLine(magnet, torrent_url) == [kind |-> "link", magnet |-> magnet, url |-> torrent_url]
\* print(helpers.download_file(download_url)); the helper is qBittorrent's
\* and is taken to return its "path url" line
FileLine(u) == [kind |-> "file", magnet |-> NoneV, url |-> u]

\* _safe_print_link up to the write: the lock is taken, the line is begun
BeginPrintLink(magnet, torrent_url) ==
    /\ lock = -1
    /\ lock' = 0
    /\ dl_out' = Append(dl_out, LinkLine(magnet, torrent_url))
    /\ dpc' = "link_print"

\* download_torrent is called, lines 135-140: a magnet URL is printed as it
\* is, any other URL has the proxy enabled
DownloadTorrent ==
    /\ dpc = "idle"
    /\ \E u \in DownloadUrls :
        /\ download_url' = u
        /\ IF StartsWithMagnet(u)
           THEN BeginPrintLink(u, u) /\ UNCHANGED proxy
           ELSE proxy' = TRUE /\ dpc' = "proxy_on" /\ UNCHANGED <<lock, dl_out>>
    /\ UNCHANGED <<config, mpc, list_xml, indexers, tasks, pool_size, wpc, xml_data, idx,
                   sink, fetches, response_content, dl_fetches>>

\* line 141: the one _fetch_url of download_torrent
DownloadFetch ==
    /\ dpc = "proxy_on"
    /\ \E r \in DlResponses(download_url) :
        /\ response_content' = r.text
        /\ dl_fetches' = Append(dl_fetches, [url |-> download_url, proxy |-> proxy, k |-> r.k])
    /\ dpc' = "fetched"
    /\ UNCHANGED <<config, mpc, list_xml, indexers, tasks, pool_size, wpc, xml_data, idx,
                   lock, sink, fetches, proxy, download_url, dl_out>>

\* a proxy left enabled when the fetch gave nothing
DisableProxyOnData ==
    /\ dpc = "fetched"
    /\ proxy' = IF Falsy(response_content) THEN proxy ELSE FALSE
    /\ dpc' = "proxy_off"
    /\ UNCHANGED <<config, mpc, list_xml, indexers, tasks, pool_size, wpc, xml_data, idx,
                   lock, sink, fetches, download_url, response_content, dl_fetches, dl_out>>

\* line 142: proxy_manager.enable(False), whatever _fetch_url returned
DisableProxy ==
    /\ dpc = "fetched"
    /\ proxy' = FALSE
    /\ dpc' = "proxy_off"
    /\ UNCHANGED <<config, mpc, list_xml, indexers, tasks, pool_size, wpc, xml_data, idx,
                   lock, sink, fetches, download_url, response_content, dl_fetches, dl_out>>

\* lines 144-145: the fetched text is a magnet URI
DownloadPrintLink ==
    /\ dpc = "proxy_off"
    /\ ~Falsy(response_content) /\ StartsWithMagnet(response_content)
    /\ BeginPrintLink(response_content, download_url)
    /\ UNCHANGED <<config, mpc, list_xml, indexers, tasks, pool_size, wpc, xml_data, idx,
                   sink, fetches, proxy, download_url, response_content, dl_fetches>>

\* lines 146-148: anything else goes to the download helper
DownloadFile ==
    /\ dpc = "proxy_off"
    /\ ~(~Falsy(response_content) /\ StartsWithMagnet(response_content))
    /\ dl_out' = Append(dl_out, FileLine(download_url))
    /\ dpc' = "returned"
    /\ UNCHANGED <<config, mpc, list_xml, indexers, tasks, pool_size, wpc, xml_data, idx,
                   lock, sink, fetches, proxy, download_url, response_content, dl_fetches>>

\* _safe_print_link leaves the with block; download_torrent returns
EndPrintLink ==
    /\ dpc = "link_print"
    /\ lock' = -1
    /\ dpc' = "returned"
    /\ UNCHANGED <<config, mpc, list_xml, indexers, tasks, pool_size, wpc, xml_data, idx,
                   sink, fetches, proxy, download_url, response_content, dl_fetches, dl_out>>

NextDl ==
    \/ DownloadTorrent
    \/ DownloadFetch
    \/ DisableProxy
    \/ DownloadPrintLink
    \/ DownloadFile
    \/ EndPrintLink

\* one call of download_torrent on a plugin that is not searching
SpecDl == Init /\ [][NextDl]_vars

(* ------------------------------ properties ---------------------------- *)

BadConfig == is_malformed \/ api_key = PLACEHOLDER_KEY

NoFetch == \A t \in Targets : fetches[t] = 0

NoQuery == tasks = <<>> /\ \A t \in Targets \ {LIST} : fetches[t] = 0

OneErrorRecord == Len(sink) = 1 /\ sink[1].kind = "error"

ListFetched == fetches[LIST] = 1

\* the result records the i-th query has written, in sink order
Emitted(i) == SelectSeq(sink, LAMBDA e : e.kind = "result" /\ e.by = i)

RECURSIVE RecordsOf(_, _, _)
\* the records the items of a feed normalise to, in document order
RecordsOf(items, tf, i) ==
    IF items = <<>> THEN <<>>
    ELSE LET n == Normalize(Head(items), tf)
         IN  (IF n.out = "record" THEN <<ResultEntry(i, n)>> ELSE <<>>)
             \o RecordsOf(Tail(items), tf, i)

Expected(i) == RecordsOf(xml_data[i].items, tracker_first, i)

CountIn(q, e) == Cardinality({p \in 1..Len(q) : q[p] = e})

SameBag(q, r) ==
    /\ Len(q) = Len(r)
    /\ \A p \in 1..Len(q) : CountIn(q, q[p]) = CountIn(r, q[p])

IsPrefix(q, r) == Len(q) <= Len(r) /\ q = SubSeq(r, 1, Len(q))

\* C1: with a malformed configuration or the placeholder API key, search
\* fetches nothing (neither the indexer list nor any query) and has emitted
\* exactly one record, the error record, when it returns.
C1_BadConfigOneRecordNoFetch ==
    BadConfig =>
        /\ NoFetch
        /\ NoQuery
        /\ Len(sink) <= 1
        /\ mpc = "returned" => OneErrorRecord

C1_Witness == BadConfig /\ mpc = "returned" /\ OneErrorRecord /\ NoFetch

\* C2: with a valid configuration, an indexer-list response that is
\* non-empty text but no XML makes search emit exactly one record, the error
\* record, and dispatch no per-indexer query.
C2_ListNotXmlOneRecordNoQuery ==
    (~BadConfig /\ ListFetched /\ list_xml.k = "notxml") =>
        /\ NoQuery
        /\ mpc \in {"error_print", "returned"}
        /\ OneErrorRecord

C2_Witness ==
    /\ ~BadConfig /\ ListFetched /\ list_xml.k = "notxml"
    /\ mpc = "returned" /\ OneErrorRecord /\ NoQuery

\* C3: with a valid configuration, an indexer-list fetch that returns no
\* data is reported exactly once, as one error record, and no per-indexer
\* query is dispatched.
C3_ListNoDataReportedOnce ==
    (~BadConfig /\ ListFetched /\ NoData(list_xml)) =>
        /\ NoQuery
        /\ mpc \in {"error_print", "returned"}
        /\ Len(sink) = 1
        /\ sink[1] = ErrorEntry("could not connect to Jackett to get indexer list", url)

C3_Witness ==
    /\ ~BadConfig /\ ListFetched /\ list_xml = RespNone /\ url # <<>>
    /\ mpc = "returned" /\ Len(sink) = 1 /\ NoQuery

\* C4: when search has returned from querying several indexers in the pool,
\* every indexer whose fetch returned no data has emitted no record, and the
\* records of every other indexer are, as a multiset, the records its feed
\* normalises to, whatever the interleaving of the workers was.
C4_ErrorIsolation ==
    (mpc = "returned" /\ Len(tasks) > 1) =>
        \A i \in DOMAIN tasks :
            IF NoData(xml_data[i])
            THEN Emitted(i) = <<>>
            ELSE SameBag(Emitted(i), Expected(i))

C4_Witness ==
    /\ mpc = "returned" /\ Len(tasks) > 1
    /\ \E i, j \in DOMAIN tasks :
        /\ NoData(xml_data[i])
        /\ Emitted(j) # <<>>

Writers == {i \in DOMAIN wpc : wpc[i] \in {"result_print", "debug_print"}}

\* C5: every write of a query worker to the output stream, record or
\* diagnostic line, is made holding the printer lock, so that no two workers
\* are ever in a write at the same time.
C5_Claim == Cardinality(Writers) <= 1

Lower(tok) == IF tok = "AB" THEN "ab" ELSE tok

\* the DedupKey of a link: the lowercased info-hash of a magnet link, else
\* the link itself
DedupKey(link) ==
    IF Len(link) = 2 /\ link[1] = "magnet:?xt=urn:btih:"
    THEN <<Lower(link[2])>>
    ELSE link

\* C6: after a search, no two emitted records share a DedupKey: when two
\* indexers return an item with the same info-hash, one record is emitted
\* for it.
C6_Claim ==
    mpc = "returned" =>
        \A p, q \in 1..Len(sink) :
            (sink[p].kind = "result" /\ sink[q].kind = "result" /\ sink[p].by # sink[q].by)
                => DedupKey(sink[p].link) # DedupKey(sink[q].link)

RECURSIVE Flatten(_)
\* the records all the feeds of the first n queries normalise to
Flatten(n) == IF n = 0 THEN <<>> ELSE Flatten(n - 1) \o Expected(n)

Candidates == Flatten(Len(tasks))

WithKey(q, key) == SelectSeq(q, LAMBDA e : e.kind = "result" /\ DedupKey(e.link) = key)

\* C7: for every DedupKey, one record survives, and its seeds are the
\* largest seeds among the candidates with that key.
C7_Claim ==
    mpc = "returned" =>
        \A c \in 1..Len(Candidates) :
            LET key  == DedupKey(Candidates[c].link)
                kept == WithKey(sink, key)
            IN  /\ Len(kept) = 1
                /\ \A d \in 1..Len(Candidates) :
                       DedupKey(Candidates[d].link) = key
                           => Candidates[d].seeds <= kept[1].seeds

\* C8: a search that returns without a result record has emitted at least
\* one record that tells what happened.
C8_Claim ==
    (mpc = "returned" /\ \A p \in 1..Len(sink) : sink[p].kind # "result")
        => Len(sink) >= 1

C10_Claim ==
    \A p \in 1..Len(sink) : sink[p].name # <<>> /\ sink[p].link # <<>>

HasTitle(item) == ~Falsy(item.title)

HasLink(item) ==
    ~Falsy(IF item.magnet # <<>> THEN item.magnet[1] ELSE item.link)

Usable(items) == {p \in 1..Len(items) : HasTitle(items[p]) /\ HasLink(items[p])}

\* C10: no record has an empty name, no result record has an empty link, and
\* the link of the error record is the base URL as configured (empty when
\* the configured URL is); an item without title or without selected link
\* yields no record: an indexer emits at most as many records as its feed
\* has items with both, and no error record appears once queries run.
C10_NoEmptyResultRecord ==
    /\ \A p \in 1..Len(sink) :
        /\ ~Falsy(sink[p].name)
        /\ sink[p].kind = "result" => ~Falsy(sink[p].link)
        /\ sink[p].kind = "error" => sink[p].link = url
    /\ \A i \in DOMAIN tasks :
        /\ Len(Emitted(i)) <= Cardinality(Usable(xml_data[i].items))
        /\ \A p \in 1..Len(sink) : sink[p].kind = "result"

C10_Witness ==
    /\ mpc = "returned" /\ sink = <<>>
    /\ \E i \in DOMAIN tasks :
        /\ xml_data[i].k = "feed" /\ Len(xml_data[i].items) = 1
        /\ LET item == xml_data[i].items[1]
           IN  /\ HasTitle(item)
               /\ item.magnet = << <<>> >>
               /\ item.link = PlainLink
               /\ item.seeders.k = "int"

\* the line download_torrent owes for what it was given and what it fetched
DownloadLine ==
    IF StartsWithMagnet(download_url)
    THEN LinkLine(download_url, download_url)
    ELSE IF ~Falsy(response_content) /\ StartsWithMagnet(response_content)
    THEN LinkLine(response_content, download_url)
    ELSE FileLine(download_url)

\* C11: a call of download_torrent prints one line.  A magnet URL is printed
\* unchanged, paired with itself, with no fetch and the proxy never enabled.
\* Any other URL is fetched once, with the proxy enabled; the proxy is
\* disabled again before anything is printed, whether the fetch gave a body,
\* a redirect target or nothing; the line is the fetched magnet URI paired
\* with the URL, or else the result of the download helper.
C11_DownloadOneLine ==
    /\ Len(dl_out) <= 1
    /\ Len(dl_fetches) <= 1
    /\ (dpc = "returned" => Len(dl_out) = 1)
    /\ (dl_out # <<>> => ~proxy /\ dl_out = <<DownloadLine>>)
    /\ (dpc # "idle" /\ StartsWithMagnet(download_url) => ~proxy /\ dl_fetches = <<>>)
    /\ (dl_out # <<>> /\ ~StartsWithMagnet(download_url) => Len(dl_fetches) = 1)
    /\ \A n \in DOMAIN dl_fetches :
          dl_fetches[n].proxy /\ dl_fetches[n].url = download_url

\* a URL that is no magnet URI was fetched in vain and went to the helper
C11_Witness ==
    /\ dpc = "returned"
    /\ download_url = PlainLink
    /\ Len(dl_fetches) = 1 /\ dl_fetches[1].k = "none"
    /\ dl_out = <<FileLine(PlainLink)>>
    /\ ~proxy

\* the search went on to query: _search_indexer was called at least once
Dispatched == tasks # <<>>

\* "thread_count > 1 and len(search_args) > 1" is false
Sequential == thread_count <= 1 \/ Len(indexers) = 1

\* C12 as stated: in every search that reaches the queries, one
\* _search_indexer call is dispatched for each resolved indexer id, for every
\* thread_count and every non-empty resolved list.
C12_Claim == Dispatched => tasks = indexers

\* C12, amended: when thread_count is more than 1 and more than one indexer id
\* was resolved, one _search_indexer call is dispatched for each resolved id,
\* in the order of the list, and by the time search returns each id's URL has
\* been fetched once and "all" never.
C12_OneQueryPerIdInPool ==
    (Dispatched /\ ~Sequential) =>
        /\ tasks = indexers
        /\ fetches[ALL] = 0
        /\ \A m, n \in DOMAIN tasks : tasks[m] = tasks[n] => m = n
        /\ (mpc = "returned" => \A n \in DOMAIN indexers : fetches[indexers[n]] = 1)

\* two ids resolved, two threads: both were queried and search returned
C12_Witness ==
    /\ mpc = "returned"
    /\ thread_count = 2
    /\ Len(indexers) = 2
    /\ tasks = indexers
    /\ \A n \in DOMAIN indexers : fetches[indexers[n]] = 1

\* C13: when thread_count is at most 1, or exactly one indexer id was
\* resolved, search makes one _search_indexer call, for the literal "all", in
\* the calling thread; no resolved id is queried, the ids decide only that
\* there is something to query.
C13_SequentialQueriesAll ==
    (Dispatched /\ Sequential) =>
        /\ tasks = <<ALL>>
        /\ pool_size = 1
        /\ fetches[ALL] <= 1
        /\ (mpc = "returned" => fetches[ALL] = 1)
        /\ \A t \in Targets \ {LIST, ALL} : fetches[t] = 0

\* two threads but one resolved id: "all" was queried, the id never
C13_Witness ==
    /\ mpc = "returned"
    /\ thread_count = 2
    /\ Len(indexers) = 1
    /\ fetches[ALL] = 1
    /\ fetches[indexers[1]] = 0

C15_NoRetry == \A t \in Targets : fetches[t] <= 1

\* the list was fetched once; a query that gave nothing and a query whose
\* text was no XML were each made once, and search has returned
C15_Witness ==
    /\ mpc = "returned"
    /\ fetches[LIST] = 1
    /\ \E i, j \in DOMAIN tasks :
          /\ NoData(xml_data[i]) /\ fetches[tasks[i]] = 1
          /\ xml_data[j].k = "notxml" /\ fetches[tasks[j]] = 1

\* search has returned to its caller, with or without an error record, with
\* every call it dispatched complete and the printer lock free
SearchOver ==
    /\ mpc = "returned"
    /\ lock = -1
    /\ \A i \in DOMAIN wpc : wpc[i] = "done"

\* C16 as stated: with every fetch returning and fair scheduling, every search
\* ends in Done or Errored: it returns, no call is left running and nobody is
\* left holding the printer lock.
C16_Claim == <>SearchOver

\* what does hold of every search: it comes to an end, by returning or by the
\* KeyError of line 192, and the lock is free then
SearchEnds == <>(mpc \in {"returned", "raised"} /\ lock = -1 /\ \A i \in DOMAIN wpc : wpc[i] = "done")

\* C17: search does not return while a call it dispatched is queued or running,
\* so no record reaches the sink after search has returned; a call that failed
\* neither makes search raise nor makes it return before the other calls are
\* complete.
C17_JoinBeforeReturn ==
    /\ [](mpc = "returned" => \A i \in DOMAIN wpc : wpc[i] = "done")
    /\ [](Dispatched => mpc # "raised")
    /\ [][mpc = "returned" => sink' = sink /\ wpc' = wpc]_vars

\* one call failed on text that is no XML, another printed a record, and
\* search returned after both
C17_Witness ==
    /\ mpc = "returned"
    /\ \E i, j \in DOMAIN tasks :
        /\ xml_data[i].k = "notxml" /\ wpc[i] = "done"
        /\ Emitted(j) # <<>> /\ wpc[j] = "done"

\* the error records in the sink
Errors == SelectSeq(sink, LAMBDA e : e.kind = "error")

\* C18: a search emits at most one error record, and only before it has
\* dispatched any query: once _search_indexer has been called no error record
\* is in the sink or ever enters it, whatever the queries return, so no sink
\* holds an error record together with a result record.
C18_ErrorsArePreFlight ==
    /\ Len(Errors) <= 1
    /\ (Dispatched => Errors = <<>>)
    /\ (Errors # <<>> =>
          /\ sink = Errors
          /\ \A t \in Targets \ {LIST} : fetches[t] = 0)

\* two queries were dispatched, both fetches gave nothing, and search returned
\* with an empty sink
C18_Witness ==
    /\ mpc = "returned"
    /\ Len(tasks) = 2
    /\ \A i \in DOMAIN tasks : NoData(xml_data[i]) /\ fetches[tasks[i]] = 1
    /\ sink = <<>>

\* an item that fails to normalise: no title, no link, or a seeders or peers
\* value that int() rejects
Fails(item) ==
    \/ ~HasTitle(item)
    \/ ~HasLink(item)
    \/ item.seeders.k = "bad"
    \/ item.peers.k = "bad"

\* the items of a feed that do not fail, in document order
Survivors(items) == SelectSeq(items, LAMBDA it : ~Fails(it))

\* C19: whichever items of a feed fail to normalise, a query that has
\* returned has emitted one record for each of the other items and nothing
\* else, in the document order of the feed: an item that fails, silently or
\* with an exception, stops no later item and the exception goes no further.
C19_PerItemIsolation ==
    \A i \in DOMAIN tasks :
        (wpc[i] = "done" /\ xml_data[i].k = "feed") =>
            LET sv == Survivors(xml_data[i].items)
                em == Emitted(i)
            IN  /\ Len(em) = Len(sv)
                /\ \A p \in 1..Len(sv) :
                      /\ em[p].name = EscapePipe(ComposeName(sv[p].title, sv[p].tracker, tracker_first))
                      /\ em[p].link = SelectLink(sv[p])
                /\ mpc # "raised"

\* the first item of a feed raised in int(), the second was emitted
C19_Witness ==
    \E i \in DOMAIN tasks :
        /\ wpc[i] = "done"
        /\ xml_data[i].k = "feed"
        /\ xml_data[i].items = <<ItemBadSeeds, ItemA>>
        /\ Len(Emitted(i)) = 1
        /\ Emitted(i)[1].link = MagnetUpper

\* leech as the claim has it: peers - seeds when both are at least 0
LeechKnown(seeds, peers) ==
    IF seeds >= 0 /\ peers >= 0 THEN peers - seeds ELSE -1

\* C20 as stated: for all integer (or absent) seeders and peers of an emitted
\* item, negative ones and peers below seeders included, leech is peers - seeds
\* when both are at least 0 and -1 otherwise, so that every emitted leech is -1
\* or at least 0.
C20_Claim ==
    \A i \in DOMAIN tasks :
        (wpc[i] = "done" /\ xml_data[i].k = "feed") =>
            LET sv == Survivors(xml_data[i].items)
                em == Emitted(i)
            IN  \A p \in 1..Len(em) :
                  /\ em[p].leech = LeechKnown(AttrValue(sv[p].seeders), AttrValue(sv[p].peers))
                  /\ em[p].leech = -1 \/ em[p].leech >= 0

====
